---- MODULE Spec2Model ----
(***************************************************************************)
(* Model of the Whisper message pipeline of whisper/whisper05/message.go:  *)
(* NewSentMessage / appendPadding / sign / encrypt* / Wrap on the send     *)
(* path, decrypt* / Validate / extractPadding / Recover on the receive     *)
(* path; and of the node Record of p2p/enr/enr.go (Set, SetSeq, Sign,      *)
(* EncodeRLP).                                                             *)
(*                                                                         *)
(* Byte buffers are run-length encoded: a buffer is a sequence of runs,    *)
(* each run standing for n consecutive bytes.  A run of type "byte" is n   *)
(* copies of the byte value b.  A run of type "sig" or "hash" is a piece   *)
(* of the output of a cryptographic primitive (bytes o .. o+n-1 of the     *)
(* signature made with key k over the data h, or of the Keccak-256 digest  *)
(* of h).  Buffers are kept normalised (no empty run, adjacent runs        *)
(* merged), so equality of buffers is equality of the byte strings.  The   *)
(* encoding lets the model use the real sizes (256, 65, 262144).           *)
(***************************************************************************)
EXTENDS Integers, Sequences, FiniteSets, TLC

(***************************************************************************)
(* Program constants.  message.go uses them; they are declared in doc.go   *)
(* of the same package, which gives the values below.                      *)
(***************************************************************************)
signatureFlag == 4
paddingMask == 3
signatureLength == 65
aesKeyLength == 32
saltLength == 12
aesNonceLength == 12
padSizeLimitLower == 256
padSizeLimitUpper == 256
msgMaxLength == 262144
DefaultTTL == 50
EnvelopeVersion == 0
\* iteration count passed to pbkdf2.Key in DeriveOneTimeKey
pbkdf2Iterations == 16
\* bytes a ciphertext is longer than its plaintext: the AES-GCM tag, and the
\* ephemeral key, IV and MAC of ECIES
gcmOverhead == 16
eciesOverhead == 113

(***************************************************************************)
(* Bounds of the model.                                                    *)
(***************************************************************************)
\* payload lengths are the boundary lengths below plus 0..MaxDelta
MaxDelta == 1

(***************************************************************************)
(* Run-length encoded byte buffers.                                        *)
(***************************************************************************)
Run(b, n) == [t |-> "byte", b |-> b, n |-> n, k |-> "", h |-> <<>>, o |-> 0]

Bytes(b, n) == IF n > 0 THEN <<Run(b, n)>> ELSE <<>>

\* a nil slice, as opposed to an empty one
NilBytes == <<[t |-> "nil", b |-> 0, n |-> 0, k |-> "", h |-> <<>>, o |-> 0]>>

IsNil(buf) == buf = NilBytes

\* the bytes of a slice, nil or not
Content(buf) == IF IsNil(buf) THEN <<>> ELSE buf

RECURSIVE BLen(_)
BLen(buf) == IF buf = <<>> THEN 0 ELSE Head(buf).n + BLen(Tail(buf))

Mergeable(r, s) ==
    /\ r.t = s.t
    /\ r.k = s.k
    /\ r.h = s.h
    /\ IF r.t = "byte" THEN r.b = s.b ELSE s.o = r.o + r.n

RECURSIVE Norm(_)
Norm(buf) ==
    IF buf = <<>> THEN <<>>
    ELSE IF Head(buf).n = 0 THEN Norm(Tail(buf))
    ELSE LET rest == Norm(Tail(buf))
         IN  IF rest # <<>> /\ Mergeable(Head(buf), Head(rest))
             THEN <<[Head(buf) EXCEPT !.n = Head(buf).n + Head(rest).n]>> \o Tail(rest)
             ELSE <<Head(buf)>> \o rest

\* append(a, b...)
Append2(a, b) == Norm(a \o b)

RECURSIVE Take(_, _)
\* buf[:m]
Take(buf, m) ==
    IF m <= 0 \/ buf = <<>> THEN <<>>
    ELSE IF Head(buf).n <= m
         THEN <<Head(buf)>> \o Take(Tail(buf), m - Head(buf).n)
         ELSE <<[Head(buf) EXCEPT !.n = m]>>

RECURSIVE Drop(_, _)
\* buf[m:]
Drop(buf, m) ==
    IF m <= 0 \/ buf = <<>> THEN buf
    ELSE IF Head(buf).n <= m
         THEN Drop(Tail(buf), m - Head(buf).n)
         ELSE <<[Head(buf) EXCEPT !.n = Head(buf).n - m,
                                  !.o = IF Head(buf).t = "byte" THEN 0
                                        ELSE Head(buf).o + m]>> \o Tail(buf)

\* buf[lo:hi], for 0 <= lo <= hi <= len(buf)
Slice(buf, lo, hi) == Norm(Take(Drop(buf, lo), hi - lo))

\* buf[i] as a number, for 0 <= i < len(buf); a byte of a primitive's
\* output is not known to the model and reads as -1
At(buf, i) ==
    LET r == Head(Drop(buf, i))
    IN  IF r.t = "byte" THEN r.b ELSE -1

\* buf[0] = v
SetAt0(buf, v) == Norm(<<Run(v, 1)>> \o Drop(buf, 1))

RECURSIVE containsOnlyZeros(_)
containsOnlyZeros(buf) ==
    IF buf = <<>> THEN TRUE
    ELSE Head(buf).t = "byte" /\ Head(buf).b = 0 /\ containsOnlyZeros(Tail(buf))

RECURSIVE bytesToIntLittleEndian(_)
bytesToIntLittleEndian(buf) ==
    IF buf = <<>> THEN 0
    ELSE At(buf, 0) + 256 * bytesToIntLittleEndian(Drop(buf, 1))

(***************************************************************************)
(* Keys.  A private key is a name; "" is nil.  "kbad" is a private key     *)
(* whose scalar is not valid, so that crypto.Sign returns an error for it. *)
(* A public key is a name too: "P1" and "P2" belong to "k1" and "k2",      *)
(* "Pbad" is a non-nil public key that validatePublicKey refuses, "Pother" *)
(* is what public-key recovery yields for a well-formed signature that was *)
(* not made over the digest it is checked against.                         *)
(***************************************************************************)
PrivateKeys == {"k1", "k2", "kbad"}

PublicKey(k) == CASE k = "k1" -> "P1" [] k = "k2" -> "P2" [] OTHER -> "Pbad"

validPrivateKey(k) == k \in {"k1", "k2"}

validatePublicKey(p) == p \in {"P1", "P2"}

\* len(k) > 0 and not all zero (whisper.go); the same check is applied to
\* the topic key and to the 12-byte salt
validateSymmetricKey(k) == BLen(Content(k)) > 0 /\ ~containsOnlyZeros(Content(k))

(***************************************************************************)
(* Primitives, modelled by what they guarantee.                            *)
(***************************************************************************)
\* crypto.Keccak256: the digest stands for the data it was computed from
Keccak256(data) ==
    <<[t |-> "hash", b |-> 0, n |-> 32, k |-> "", h |-> data, o |-> 0]>>

ZeroHash == Bytes(0, 32)

\* crypto.Sign: a 65-byte signature that binds key and digest, or no
\* signature and an error
cryptoSign(digest, key) ==
    IF validPrivateKey(key)
    THEN [signature |-> <<[t |-> "sig", b |-> 0, n |-> signatureLength,
                           k |-> key, h |-> digest, o |-> 0]>>,
          err |-> ""]
    ELSE [signature |-> <<>>, err |-> "invalid private key"]

\* crypto.SigToPub: the signer's public key for a whole signature checked
\* against the digest it was made over, another key for a whole signature
\* checked against another digest, nil (with an error) for bytes that are
\* no signature
SigToPub(digest, sig) ==
    IF Len(sig) = 1 /\ sig[1].t = "sig" /\ sig[1].o = 0 /\ sig[1].n = signatureLength
    THEN IF sig[1].h = digest THEN PublicKey(sig[1].k) ELSE "Pother"
    ELSE ""

\* the one-time key derived by PBKDF2: determined by key, salt, iteration
\* count and length
NoKey == [key |-> <<>>, salt |-> <<>>, iter |-> 0, n |-> 0]

pbkdf2Key(key, salt, iter, keyLen) ==
    [key |-> Content(key), salt |-> Content(salt), iter |-> iter, n |-> keyLen]

\* validateSymmetricKey applied to a derived key: PBKDF2 output of the
\* requested length, which is not all zero
validateDerivedKey(dk) == dk.n > 0

(***************************************************************************)
(* A message buffer (SentMessage.Raw, ReceivedMessage.Raw) is the          *)
(* plaintext bytes under a stack of encryption layers, outermost first.    *)
(* An empty stack is plaintext.                                            *)
(***************************************************************************)
Plain(buf) == [layers |-> <<>>, bytes |-> buf]

SymLayer(dk, nonce) == [mode |-> "sym", dk |-> dk, pub |-> "", nonce |-> nonce]

AsymLayer(pub) == [mode |-> "asym", dk |-> NoKey, pub |-> pub, nonce |-> <<>>]

\* aesgcm.Seal(nil, nonce, raw, nil)
gcmSeal(dk, nonce, raw) == [raw EXCEPT !.layers = <<SymLayer(dk, nonce)>> \o @]

\* aesgcm.Open(nil, nonce, raw, nil): authentication succeeds only with the
\* key and nonce the data was sealed with
gcmOpen(dk, nonce, raw) ==
    IF raw.layers # <<>> /\ Head(raw.layers) = SymLayer(dk, nonce)
    THEN [raw |-> [raw EXCEPT !.layers = Tail(@)], err |-> ""]
    ELSE [raw |-> Plain(<<>>), err |-> "cipher: message authentication failed"]

\* crypto.Encrypt (ECIES)
eciesEncrypt(pub, raw) == [raw EXCEPT !.layers = <<AsymLayer(pub)>> \o @]

\* crypto.Decrypt (ECIES): succeeds only with the private key of the public
\* key the data was encrypted to
eciesDecrypt(priv, raw) ==
    IF /\ raw.layers # <<>>
       /\ validPrivateKey(priv)
       /\ Head(raw.layers) = AsymLayer(PublicKey(priv))
    THEN [raw |-> [raw EXCEPT !.layers = Tail(@)], err |-> ""]
    ELSE [raw |-> Plain(<<>>), err |-> "ecies: invalid message"]

(***************************************************************************)
(* message.go, helpers.                                                    *)
(***************************************************************************)
isMessageSigned(flags) == (flags \div signatureFlag) % 2 # 0

isMessagePadded(flags) == flags % (paddingMask + 1) # 0

DeriveOneTimeKey(key, salt, version) ==
    IF version = 0
    THEN [derivedKey |-> pbkdf2Key(key, salt, pbkdf2Iterations, aesKeyLength), err |-> ""]
    ELSE [derivedKey |-> NoKey, err |-> "DeriveKey: invalid envelope version"]

\* x | bit and x &^ bit, for a one-bit mask
SetBit(x, bit) == IF (x \div bit) % 2 = 1 THEN x ELSE x + bit

ClearBit(x, bit) == IF (x \div bit) % 2 = 1 THEN x - bit ELSE x

RECURSIVE LayersOverhead(_)
LayersOverhead(layers) ==
    IF layers = <<>> THEN 0
    ELSE (IF Head(layers).mode = "sym" THEN gcmOverhead ELSE eciesOverhead)
         + LayersOverhead(Tail(layers))

\* the bytes of self.Raw: the plaintext, or a ciphertext whose bytes the
\* model does not know
RawBytes(raw) ==
    IF raw.layers = <<>> THEN raw.bytes
    ELSE <<[t |-> "cipher", b |-> 0, n |-> BLen(raw.bytes) + LayersOverhead(raw.layers),
            k |-> "", h |-> raw.bytes, o |-> 0]>>

\* len(self.Raw)
RawLen(raw) == BLen(RawBytes(raw))

\* self.Raw[0]
RawFlags(raw) == At(RawBytes(raw), 0)

Min(a, b) == IF a <= b THEN a ELSE b

(***************************************************************************)
(* The send path.                                                          *)
(***************************************************************************)
\* appendPadding without the test odd > 0: a total that is a multiple of
\* the chunk asks for a whole chunk of padding
appendPadding_AlwaysPad(bytes, params, fill) ==
    LET total == BLen(params.Payload) + 1
                 + (IF params.Src # "" THEN signatureLength ELSE 0)
        padChunk == IF total <= padSizeLimitLower THEN padSizeLimitLower
                    ELSE padSizeLimitUpper
        odd == total % padChunk
        padSize == padChunk - odd
        random == <<Run(padSize % 256, 1)>> \o Bytes(fill, padSize - 1)
        ncopy == Min(padSize - 1, BLen(Content(params.Padding)))
        buf == IF IsNil(params.Padding) THEN random
               ELSE Take(random, 1) \o Take(params.Padding, ncopy)
                    \o Drop(random, 1 + ncopy)
    IN  IF padSize > 255
        THEN [bytes |-> bytes, panic |-> TRUE]
        ELSE [bytes |-> SetAt0(Append2(bytes, buf), SetBit(At(bytes, 0), 1)),
              panic |-> FALSE]

\* appendPadding: bytes is the buffer built so far (the flags byte), fill
\* the byte value the random generator repeats in the padding
appendPadding(bytes, params, fill) ==
    LET total == BLen(params.Payload) + 1
                 + (IF params.Src # "" THEN signatureLength ELSE 0)
        padChunk == IF total <= padSizeLimitLower THEN padSizeLimitLower
                    ELSE padSizeLimitUpper
        odd == total % padChunk
        padSize == padChunk - odd
        random == <<Run(padSize % 256, 1)>> \o Bytes(fill, padSize - 1)
        ncopy == Min(padSize - 1, BLen(Content(params.Padding)))
        buf == IF IsNil(params.Padding) THEN random
               ELSE Take(random, 1) \o Take(params.Padding, ncopy)
                    \o Drop(random, 1 + ncopy)
    IN  IF odd > 0
        THEN IF padSize > 255
             THEN [bytes |-> bytes, panic |-> TRUE]
             ELSE [bytes |-> SetAt0(Append2(bytes, buf), SetBit(At(bytes, 0), 1)),
                   panic |-> FALSE]
        ELSE [bytes |-> bytes, panic |-> FALSE]

\* NewSentMessage: rnd is the random byte the flags start from
NewSentMessage(params, rnd, fill) ==
    LET flags == ClearBit(rnd - (rnd % (paddingMask + 1)), signatureFlag)
        padded == appendPadding(Bytes(flags, 1), params, fill)
    IN  [raw |-> Plain(Append2(padded.bytes, params.Payload)), panic |-> padded.panic]

\* sign
sign(raw, key) ==
    IF isMessageSigned(RawFlags(raw))
    THEN [raw |-> raw, err |-> ""]
    ELSE LET hash == Keccak256(RawBytes(raw))
             s == cryptoSign(hash, key)
         IN  IF s.err # ""
             THEN [raw |-> [raw EXCEPT !.bytes =
                               SetAt0(Append2(raw.bytes, s.signature),
                                      SetBit(RawFlags(raw), signatureFlag))],
                   err |-> s.err]
             ELSE [raw |-> raw, err |-> s.err]

\* encryptAsymmetric
encryptAsymmetric(raw, key) ==
    IF ~validatePublicKey(key)
    THEN [raw |-> raw, err |-> "Invalid public key provided for asymmetric encryption"]
    ELSE [raw |-> eciesEncrypt(key, raw), err |-> ""]

\* encryptSymmetric that does not hand the salt it used back to Wrap
encryptSymmetric_SaltKept(raw, key, salt, nonce) ==
    IF ~validateSymmetricKey(key)
    THEN [raw |-> raw, salt |-> NilBytes, nonce |-> NilBytes,
          err |-> "encryptSymmetric: invalid key provided for symmetric encryption"]
    ELSE IF ~validateSymmetricKey(salt)
    THEN [raw |-> raw, salt |-> salt, nonce |-> NilBytes,
          err |-> "encryptSymmetric: failed to generate salt"]
    ELSE LET d == DeriveOneTimeKey(key, salt, EnvelopeVersion)
         IN  IF d.err # ""
             THEN [raw |-> raw, salt |-> salt, nonce |-> NilBytes, err |-> d.err]
             ELSE IF ~validateDerivedKey(d.derivedKey)
             THEN [raw |-> raw, salt |-> salt, nonce |-> NilBytes,
                   err |-> "encryptSymmetric: invalid key derived"]
             ELSE [raw |-> gcmSeal(d.derivedKey, nonce, raw),
                   salt |-> NilBytes, nonce |-> nonce, err |-> ""]

\* encryptSymmetric: salt and nonce are what crypto/rand delivers
encryptSymmetric(raw, key, salt, nonce) ==
    IF ~validateSymmetricKey(key)
    THEN [raw |-> raw, salt |-> NilBytes, nonce |-> NilBytes,
          err |-> "encryptSymmetric: invalid key provided for symmetric encryption"]
    ELSE IF ~validateSymmetricKey(salt)
    THEN [raw |-> raw, salt |-> salt, nonce |-> NilBytes,
          err |-> "encryptSymmetric: failed to generate salt"]
    ELSE LET d == DeriveOneTimeKey(key, salt, EnvelopeVersion)
         IN  IF d.err # ""
             THEN [raw |-> raw, salt |-> salt, nonce |-> NilBytes, err |-> d.err]
             ELSE IF ~validateDerivedKey(d.derivedKey)
             THEN [raw |-> raw, salt |-> salt, nonce |-> NilBytes,
                   err |-> "encryptSymmetric: invalid key derived"]
             ELSE [raw |-> gcmSeal(d.derivedKey, nonce, raw),
                   salt |-> salt, nonce |-> nonce, err |-> ""]

\* NewEnvelope (envelope.go): the envelope around the message's Raw
NewEnvelope(ttl, topic, salt, aesNonce, raw, now) ==
    [Version |-> EnvelopeVersion, Expiry |-> now + ttl, TTL |-> ttl, Topic |-> topic,
     Salt |-> salt, AESNonce |-> aesNonce, Data |-> raw, sealed |-> FALSE]

\* Envelope.Seal (envelope.go): the nonce search; found tells whether a nonce
\* reaching the target was found within WorkTime.  Seal returns nothing.
Seal(envelope, options, found) == [envelope EXCEPT !.sealed = found]

\* the size check with >= for >: a message of exactly msgMaxLength bytes is
\* refused
oversized_AtLimit(raw) == RawLen(raw) >= msgMaxLength

\* Wrap, the size check: len(self.Raw) > msgMaxLength
oversized(raw) == RawLen(raw) > msgMaxLength

\* the TTL default left out: a TTL of 0 goes into the envelope
effectiveTTL_NoDefault(options) == options.TTL

\* Wrap, the TTL default: if options.TTL == 0 { options.TTL = DefaultTTL },
\* on Wrap's own copy of the parameters
effectiveTTL(options) == IF options.TTL = 0 THEN DefaultTTL ELSE options.TTL

\* Wrap.  rnd holds what the environment decides: salt, nonce, the clock
\* and the outcome of the nonce search.  envelope is <<>> for nil,
\* steps lists the steps Wrap ran.
Wrap(raw, options, rnd) ==
    LET ttl == effectiveTTL(options)
        s == IF options.Src # "" THEN sign(raw, options.Src)
             ELSE [raw |-> raw, err |-> ""]
        st1 == IF options.Src # "" THEN <<"sign">> ELSE <<>>
    IN  IF s.err # ""
        THEN [raw |-> s.raw, envelope |-> <<>>, err |-> s.err, steps |-> st1]
        ELSE IF oversized(s.raw)
        THEN [raw |-> s.raw, envelope |-> <<>>, err |-> "Oversized message",
              steps |-> st1]
        ELSE LET e == IF options.Dst # ""
                      THEN LET a == encryptAsymmetric(s.raw, options.Dst)
                           IN  [raw |-> a.raw, salt |-> NilBytes,
                                nonce |-> NilBytes, err |-> a.err]
                      ELSE IF ~IsNil(options.KeySym)
                      THEN encryptSymmetric(s.raw, options.KeySym, rnd.salt, rnd.nonce)
                      ELSE [raw |-> s.raw, salt |-> NilBytes, nonce |-> NilBytes,
                            err |-> "Unable to encrypt the message: neither Dst nor Key"]
                 st2 == IF options.Dst # "" THEN st1 \o <<"encryptAsymmetric">>
                        ELSE IF ~IsNil(options.KeySym)
                        THEN st1 \o <<"encryptSymmetric">>
                        ELSE st1
             IN  IF e.err = ""
                 THEN [raw |-> e.raw,
                       envelope |-> <<Seal(NewEnvelope(ttl, options.Topic, e.salt,
                                                       e.nonce, e.raw, rnd.now),
                                           options, rnd.found)>>,
                       err |-> "", steps |-> st2 \o <<"NewEnvelope", "Seal">>]
                 ELSE [raw |-> e.raw, envelope |-> <<>>, err |-> e.err, steps |-> st2]

(***************************************************************************)
(* The receive path.  A ReceivedMessage is a record; Src and Dst are       *)
(* public keys ("" is nil), Payload, Padding and Signature are slices.     *)
(***************************************************************************)
NewReceivedMessage(raw, version) ==
    [Raw |-> raw, Payload |-> NilBytes, Padding |-> NilBytes, Signature |-> NilBytes,
     Src |-> "", Dst |-> "", TopicKeyHash |-> ZeroHash, EnvelopeVersion |-> version]

\* isSymmetricEncryption testing nothing: every message counts as symmetric
isSymmetricEncryption_Always(msg) == TRUE

isSymmetricEncryption(msg) == msg.TopicKeyHash # ZeroHash

isAsymmetricEncryption(msg) == msg.Dst # ""

\* decryptSymmetric
decryptSymmetric(msg, key, salt, nonce) ==
    LET d == DeriveOneTimeKey(key, salt, msg.EnvelopeVersion)
    IN  IF d.err # "" THEN [msg |-> msg, err |-> d.err]
        ELSE IF BLen(Content(nonce)) # aesNonceLength
        THEN [msg |-> msg, err |-> "Wrong AES nonce size"]
        ELSE LET o == gcmOpen(d.derivedKey, Content(nonce), msg.Raw)
             IN  IF o.err # "" THEN [msg |-> msg, err |-> o.err]
                 ELSE [msg |-> [msg EXCEPT !.Raw = o.raw], err |-> ""]

\* decryptAsymmetric with the test of err inverted: the plaintext is dropped
\* on success
decryptAsymmetric_Inverted(msg, key) ==
    LET o == eciesDecrypt(key, msg.Raw)
    IN  IF o.err # "" THEN [msg |-> [msg EXCEPT !.Raw = o.raw], err |-> o.err]
        ELSE [msg |-> msg, err |-> o.err]

\* decryptAsymmetric without the test of err: Raw is overwritten with
\* whatever crypto.Decrypt returned
decryptAsymmetric_Unchecked(msg, key) ==
    LET o == eciesDecrypt(key, msg.Raw)
    IN  [msg |-> [msg EXCEPT !.Raw = o.raw], err |-> o.err]

\* decryptAsymmetric
decryptAsymmetric(msg, key) ==
    LET o == eciesDecrypt(key, msg.Raw)
    IN  IF o.err = "" THEN [msg |-> [msg EXCEPT !.Raw = o.raw], err |-> ""]
        ELSE [msg |-> msg, err |-> o.err]

\* cap(self.Raw): the decryption routines return a buffer allocated with
\* exactly the length of the plaintext, so a slice expression that ends
\* beyond len(self.Raw) panics
RawCap(raw) == RawLen(raw)

\* hash
hash(msg) ==
    IF isMessageSigned(RawFlags(msg.Raw))
    THEN Keccak256(Slice(RawBytes(msg.Raw), 0, RawLen(msg.Raw) - signatureLength))
    ELSE Keccak256(RawBytes(msg.Raw))

\* Recover
Recover(msg) == SigToPub(hash(msg), Content(msg.Signature))

\* extractPadding with >= for > in the bound check: padding that fills the
\* buffer up to end (an empty payload) is refused
extractPadding_Strict(msg, end) ==
    LET sz == RawFlags(msg.Raw) % (paddingMask + 1)
        paddingSize == bytesToIntLittleEndian(Slice(RawBytes(msg.Raw), 1, 1 + sz))
    IN  IF sz # 0
        THEN IF 1 + sz > RawCap(msg.Raw)
             THEN [msg |-> msg, paddingSize |-> 0, ok |-> FALSE, panic |-> TRUE]
             ELSE IF paddingSize < sz \/ paddingSize + 1 >= end
             THEN [msg |-> msg, paddingSize |-> 0, ok |-> FALSE, panic |-> FALSE]
             ELSE [msg |-> [msg EXCEPT !.Padding =
                               Slice(RawBytes(msg.Raw), 1 + sz, 1 + paddingSize)],
                   paddingSize |-> paddingSize, ok |-> TRUE, panic |-> FALSE]
        ELSE [msg |-> msg, paddingSize |-> 0, ok |-> TRUE, panic |-> FALSE]

\* extractPadding that leaves the size bytes in Padding
extractPadding_WithSize(msg, end) ==
    LET sz == RawFlags(msg.Raw) % (paddingMask + 1)
        paddingSize == bytesToIntLittleEndian(Slice(RawBytes(msg.Raw), 1, 1 + sz))
    IN  IF sz # 0
        THEN IF 1 + sz > RawCap(msg.Raw)
             THEN [msg |-> msg, paddingSize |-> 0, ok |-> FALSE, panic |-> TRUE]
             ELSE IF paddingSize < sz \/ paddingSize + 1 > end
             THEN [msg |-> msg, paddingSize |-> 0, ok |-> FALSE, panic |-> FALSE]
             ELSE [msg |-> [msg EXCEPT !.Padding =
                               Slice(RawBytes(msg.Raw), 1, 1 + paddingSize)],
                   paddingSize |-> paddingSize, ok |-> TRUE, panic |-> FALSE]
        ELSE [msg |-> msg, paddingSize |-> 0, ok |-> TRUE, panic |-> FALSE]

\* extractPadding
extractPadding(msg, end) ==
    LET sz == RawFlags(msg.Raw) % (paddingMask + 1)
        paddingSize == bytesToIntLittleEndian(Slice(RawBytes(msg.Raw), 1, 1 + sz))
    IN  IF sz # 0
        THEN IF 1 + sz > RawCap(msg.Raw)
             THEN [msg |-> msg, paddingSize |-> 0, ok |-> FALSE, panic |-> TRUE]
             ELSE IF paddingSize < sz \/ paddingSize + 1 > end
             THEN [msg |-> msg, paddingSize |-> 0, ok |-> FALSE, panic |-> FALSE]
             ELSE [msg |-> [msg EXCEPT !.Padding =
                               Slice(RawBytes(msg.Raw), 1 + sz, 1 + paddingSize)],
                   paddingSize |-> paddingSize, ok |-> TRUE, panic |-> FALSE]
        ELSE [msg |-> msg, paddingSize |-> 0, ok |-> TRUE, panic |-> FALSE]

\* Validate; panic tells that the call ended in a run-time panic (a slice
\* expression out of range) instead of returning
Validate(msg) ==
    LET len == RawLen(msg.Raw)
    IN  IF len < 1 THEN [msg |-> msg, ok |-> FALSE, panic |-> FALSE]
        ELSE LET signed == isMessageSigned(RawFlags(msg.Raw))
                 end == IF signed THEN len - signatureLength ELSE len
                 m1 == [msg EXCEPT !.Signature = Slice(RawBytes(msg.Raw), end, len)]
                 m2 == [m1 EXCEPT !.Src = Recover(m1)]
             IN  IF signed /\ end <= 1 THEN [msg |-> msg, ok |-> FALSE, panic |-> FALSE]
                 ELSE IF signed /\ m2.Src = ""
                 THEN [msg |-> m2, ok |-> FALSE, panic |-> FALSE]
                 ELSE LET m3 == IF signed THEN m2 ELSE msg
                          p == extractPadding(m3, end)
                      IN  IF ~p.ok THEN [msg |-> p.msg, ok |-> FALSE, panic |-> p.panic]
                          ELSE [msg |-> [p.msg EXCEPT !.Payload =
                                            Slice(RawBytes(msg.Raw), 1 + p.paddingSize, end)],
                                ok |-> isSymmetricEncryption(p.msg)
                                       # isAsymmetricEncryption(p.msg),
                                panic |-> FALSE]

\* Envelope.OpenSymmetric / Open (envelope.go): decrypt with a topic key and,
\* on success, record the key's hash as the message's TopicKeyHash
openSymmetric(msg, key, salt, nonce) ==
    LET r == decryptSymmetric(msg, key, salt, nonce)
    IN  IF r.err = ""
        THEN [msg |-> [r.msg EXCEPT !.TopicKeyHash = Keccak256(Content(key))], err |-> ""]
        ELSE r

\* Envelope.OpenAsymmetric / Open (envelope.go): decrypt with a private key
\* and, on success, record its public key as the message's Dst
openAsymmetric(msg, key) ==
    LET r == decryptAsymmetric(msg, key)
    IN  IF r.err = "" THEN [msg |-> [r.msg EXCEPT !.Dst = PublicKey(key)], err |-> ""]
        ELSE r

(***************************************************************************)
(* Inputs.                                                                 *)
(***************************************************************************)
BaseLens == {0, 5, 190, 253, 255, 262078, 262143, 262144}

PayloadLens == {b + d : b \in BaseLens, d \in 0 .. MaxDelta}

\* a payload of n bytes: byte 1, then n-1 bytes 104
Payload(n) == Norm(Bytes(1, Min(n, 1)) \o Bytes(104, n - 1))

GoodKeySym == Norm(Bytes(0, 31) \o Bytes(1, 1))

KeySyms == {NilBytes, Bytes(0, aesKeyLength), GoodKeySym, Bytes(7, 16)}

CandidateKeySyms == {GoodKeySym, Bytes(7, 16), Bytes(9, aesKeyLength)}

Topic == <<Run(222, 1), Run(173, 1), Run(190, 1), Run(239, 1)>>

\* a caller-supplied padding of three different bytes
CallerPadding == <<Run(80, 1), Run(81, 1), Run(82, 1)>>

ParamSet ==
    [TTL : {0, 10}, Src : {"", "k1", "kbad"}, Dst : {"", "P1", "Pbad"},
     KeySym : KeySyms, Topic : {Topic}, WorkTime : {0, 1}, PoW : {-1, 1},
     Payload : {Payload(n) : n \in PayloadLens},
     Padding : {NilBytes, CallerPadding}]

Salts == {Bytes(0, saltLength), Bytes(90, saltLength)}

Now == 1000

(***************************************************************************)
(* Node records, p2p/enr/enr.go.  A Record is seq, signature (<<>> is      *)
(* nil), raw and pairs, a list of key/value pairs.  Keys are strings, which *)
(* Go compares byte by byte; EnrKeys lists the keys of the model in that   *)
(* order.  A value is a name, "bad" being a value whose RLP encoding       *)
(* fails.                                                                  *)
(***************************************************************************)
EnrKeys == <<"id", "ip", "secp256k1", "tcp">>

\* the position of key k in the order of strings
KeyRank(k) == CHOOSE i \in 1 .. Len(EnrKeys) : EnrKeys[i] = k

\* rlp.EncodeToBytes(k): the blob of the value, or an error
rlpEncodeToBytes(v) ==
    IF v = "bad" THEN [blob |-> <<>>, err |-> "rlp: type not supported"]
    ELSE [blob |-> <<"rlp", v>>, err |-> ""]

EmptyRecord == [seq |-> 0, signature |-> <<>>, raw |-> <<>>, pairs |-> <<>>]

\* Record.SetSeq
SetSeq(r, s) == [r EXCEPT !.signature = <<>>, !.seq = s]

RECURSIVE SetLoop_NoInsert(_, _, _, _)
\* the loop of Record.Set without the branch that inserts before a greater
\* key: a new pair always goes to the end
SetLoop_NoInsert(pairs, i, k, blob) ==
    IF i > Len(pairs) THEN Append(pairs, [k |-> k, v |-> blob])
    ELSE IF pairs[i].k = k THEN [pairs EXCEPT ![i].v = blob]
    ELSE SetLoop_NoInsert(pairs, i + 1, k, blob)

RECURSIVE SetLoop(_, _, _, _)
\* Record.Set, the loop over r.pairs from index i on: replace the value of
\* the pair with key k, or insert the pair before the first greater key, or
\* append it after the last pair
SetLoop(pairs, i, k, blob) ==
    IF i > Len(pairs) THEN Append(pairs, [k |-> k, v |-> blob])
    ELSE IF pairs[i].k = k THEN [pairs EXCEPT ![i].v = blob]
    ELSE IF KeyRank(pairs[i].k) > KeyRank(k)
    THEN SubSeq(pairs, 1, i - 1) \o <<[k |-> k, v |-> blob]>> \o SubSeq(pairs, i, Len(pairs))
    ELSE SetLoop(pairs, i + 1, k, blob)

\* Record.Set
Set(r, k, v) ==
    LET r1 == [r EXCEPT !.signature = <<>>]
        e == rlpEncodeToBytes(v)
    IN  IF e.err # "" THEN [r |-> r1, err |-> e.err]
        ELSE [r |-> [r1 EXCEPT !.pairs = SetLoop(r1.pairs, 1, k, e.blob)], err |-> ""]

\* Record.signAndEncode: the signature is made over seq and the pairs, raw
\* is the encoding of signature, seq and pairs
signAndEncode(r, privkey) ==
    IF ~validPrivateKey(privkey) THEN [r |-> r, err |-> "signing failed"]
    ELSE LET sig == <<[k |-> privkey, seq |-> r.seq, pairs |-> r.pairs]>>
         IN  [r |-> [r EXCEPT !.signature = sig,
                              !.raw = <<[signature |-> sig, seq |-> r.seq,
                                         pairs |-> r.pairs]>>],
              err |-> ""]

\* Record.Sign; seq is a uint32, and the sequence numbers of the model stay
\* far below its wrap-around
Sign(r, privkey) ==
    LET r1 == [r EXCEPT !.seq = r.seq + 1]
        r2 == Set(r1, "id", "secp256k1-keccak").r
        r3 == Set(r2, "secp256k1", PublicKey(privkey)).r
    IN  signAndEncode(r3, privkey)

\* Record.EncodeRLP: what is written, or an error
EncodeRLP(r) ==
    IF r.signature = <<>> THEN [out |-> <<>>, err |-> "record is not signed"]
    ELSE [out |-> r.raw, err |-> ""]

(***************************************************************************)
(* The state machine: one message is built, wrapped, and the envelope is   *)
(* opened and validated by a receiver trying candidate keys.               *)
(***************************************************************************)
VARIABLES
    phase,      \* "new", "built" (or "panicked"), "wrapped", "received",
                \* "decrypted", "validated"
    params,     \* the MessageParams of the message
    sent,       \* SentMessage.Raw
    rawBefore,  \* SentMessage.Raw when Wrap was called
    envelope,   \* what Wrap returned: <<>> for nil, else <<the envelope>>
    err,        \* the error Wrap returned, "" for nil
    steps,      \* the steps Wrap ran, in order
    recv,       \* the ReceivedMessage
    recvErr,    \* the error of the last decryption attempt
    valid,      \* what Validate returned: "none" before the call, "panic"
                \* when it did not return
    record,     \* a node Record
    enrCall     \* the last call made on the Record and the error it returned

vars == <<phase, params, sent, rawBefore, envelope, err, steps, recv, recvErr, valid,
          record, enrCall>>

NoParams ==
    [TTL |-> 0, Src |-> "", Dst |-> "", KeySym |-> NilBytes, Topic |-> Topic,
     WorkTime |-> 0, PoW |-> 0, Payload |-> <<>>, Padding |-> NilBytes]

\* no call was made on the Record yet
NoCall == [op |-> "", k |-> "", v |-> "", err |-> ""]

Init ==
    /\ phase = "new"
    /\ params = NoParams
    /\ sent = Plain(<<>>)
    /\ rawBefore = Plain(<<>>)
    /\ envelope = <<>>
    /\ err = ""
    /\ steps = <<>>
    /\ recv = NewReceivedMessage(Plain(<<>>), EnvelopeVersion)
    /\ recvErr = ""
    /\ valid = "none"
    /\ record = EmptyRecord
    /\ enrCall = NoCall

NewSentMessageStep ==
    /\ phase = "new"
    /\ \E p \in ParamSet, rnd \in {0, 255} :
          LET m == NewSentMessage(p, rnd, 170)
          IN  /\ params' = p
              /\ sent' = m.raw
              /\ phase' = IF m.panic THEN "panicked" ELSE "built"
    /\ UNCHANGED <<record, enrCall, rawBefore, envelope, err, steps, recv, recvErr, valid>>

WrapStep ==
    /\ phase = "built"
    /\ \E salt \in Salts, found \in BOOLEAN :
          LET w == Wrap(sent, params,
                        [salt |-> salt, nonce |-> Bytes(60, aesNonceLength),
                         now |-> Now, found |-> found])
          IN  /\ sent' = w.raw
              /\ envelope' = w.envelope
              /\ err' = w.err
              /\ steps' = w.steps
    /\ rawBefore' = sent
    /\ phase' = "wrapped"
    /\ UNCHANGED <<record, enrCall, params, recv, recvErr, valid>>

ReceiveStep ==
    /\ phase = "wrapped"
    /\ envelope # <<>>
    /\ recv' = NewReceivedMessage(envelope[1].Data, envelope[1].Version)
    /\ phase' = "received"
    /\ UNCHANGED <<record, enrCall, params, sent, rawBefore, envelope, err, steps, recvErr, valid>>

DecryptSymmetricStep ==
    /\ phase = "received"
    /\ \E key \in CandidateKeySyms :
          LET r == openSymmetric(recv, key, envelope[1].Salt, envelope[1].AESNonce)
          IN  /\ recv' = r.msg
              /\ recvErr' = r.err
              /\ phase' = IF r.err = "" THEN "decrypted" ELSE "received"
    /\ UNCHANGED <<record, enrCall, params, sent, rawBefore, envelope, err, steps, valid>>

DecryptAsymmetricStep ==
    /\ phase = "received"
    /\ \E key \in PrivateKeys :
          LET r == openAsymmetric(recv, key)
          IN  /\ recv' = r.msg
              /\ recvErr' = r.err
              /\ phase' = IF r.err = "" THEN "decrypted" ELSE "received"
    /\ UNCHANGED <<record, enrCall, params, sent, rawBefore, envelope, err, steps, valid>>

ValidateStep ==
    /\ phase = "decrypted"
    /\ LET v == Validate(recv)
       IN  /\ recv' = v.msg
           /\ valid' = IF v.panic THEN "panic" ELSE IF v.ok THEN "true" ELSE "false"
    /\ phase' = "validated"
    /\ UNCHANGED <<record, enrCall, params, sent, rawBefore, envelope, err, steps, recvErr>>

Next ==
    \/ NewSentMessageStep
    \/ WrapStep
    \/ ReceiveStep
    \/ DecryptSymmetricStep
    \/ DecryptAsymmetricStep
    \/ ValidateStep

Spec == Init /\ [][Next]_vars

(***************************************************************************)
(* The receiver alone.  The plaintext that decryption leaves in Raw is     *)
(* chosen by whoever encrypted it, so Validate is handed any byte buffer:  *)
(* a flags byte, up to MaxInjectLen further bytes, and possibly a trailer  *)
(* of signature length.  TopicKeyHash and Dst are exported fields the      *)
(* caller of Validate fills in.                                            *)
(***************************************************************************)
MaxInjectLen == 3

InjectBytes == {0, 1, 2, 200}

\* the buffer holding the bytes of seq
BufOf(seq) == Norm([i \in 1 .. Len(seq) |-> Run(seq[i], 1)])

InjectBodies == UNION {[1 .. m -> InjectBytes] : m \in 0 .. MaxInjectLen}

\* what may follow the bytes prefix: nothing, the signature of prefix, a
\* signature made over other data, 65 bytes that are no signature, 64 bytes
InjectTrailers(prefix) ==
    {<<>>,
     cryptoSign(Keccak256(prefix), "k1").signature,
     cryptoSign(Keccak256(<<>>), "k2").signature,
     Bytes(9, signatureLength),
     Bytes(9, signatureLength - 1)}

InjectBufs ==
    {<<>>} \cup
    UNION {{Append2(BufOf(<<f>> \o body), t) : t \in InjectTrailers(BufOf(<<f>> \o body))} :
              f \in 0 .. 7, body \in InjectBodies}

InjectStep ==
    /\ phase = "new"
    /\ \E buf \in InjectBufs, tkh \in {ZeroHash, Keccak256(GoodKeySym)}, dst \in {"", "P1"} :
          recv' = [NewReceivedMessage(Plain(buf), EnvelopeVersion)
                      EXCEPT !.TopicKeyHash = tkh, !.Dst = dst]
    /\ phase' = "decrypted"
    /\ UNCHANGED <<record, enrCall, params, sent, rawBefore, envelope, err, steps, recvErr, valid>>

NextInject ==
    \/ InjectStep
    \/ ValidateStep

SpecInject == Init /\ [][NextInject]_vars

(***************************************************************************)
(* The sender alone, calling Wrap more than once.  Wrap is a method of the *)
(* SentMessage and nothing keeps the caller from calling it again, after   *)
(* an error or after an envelope was returned; the model calls it again    *)
(* with the same parameters, up to MaxWraps calls in all.  From the second *)
(* call on, steps holds the steps of all calls, the calls separated by     *)
(* "Wrap".  The first byte of a ciphertext reads as a flags byte with the  *)
(* signed bit set: it is 0x04 for ECIES output.                            *)
(***************************************************************************)
MaxWraps == 2

RECURSIVE CountOf(_, _)
CountOf(name, list) ==
    IF list = <<>> THEN 0
    ELSE (IF Head(list) = name THEN 1 ELSE 0) + CountOf(name, Tail(list))

RewrapStep ==
    /\ phase = "wrapped"
    /\ CountOf("Wrap", steps) + 1 < MaxWraps
    /\ \E salt \in Salts, found \in BOOLEAN :
          LET w == Wrap(sent, params,
                        [salt |-> salt, nonce |-> Bytes(60, aesNonceLength),
                         now |-> Now, found |-> found])
          IN  /\ sent' = w.raw
              /\ envelope' = w.envelope
              /\ err' = w.err
              /\ steps' = steps \o <<"Wrap">> \o w.steps
    /\ rawBefore' = sent
    /\ UNCHANGED <<record, enrCall, phase, params, recv, recvErr, valid>>

NextSend ==
    \/ NewSentMessageStep
    \/ WrapStep
    \/ RewrapStep

SpecSend == Init /\ [][NextSend]_vars

(***************************************************************************)
(* A node Record under any sequence of Set, SetSeq, Sign and EncodeRLP     *)
(* calls, starting from the empty record.  Sequence numbers stay at or     *)
(* below MaxSeq.                                                           *)
(***************************************************************************)
MaxSeq == 2

\* the keys and values callers set
SetKeys == {"id", "ip", "tcp"}

SetValues == {"v1", "v2", "bad"}

messageVars == <<phase, params, sent, rawBefore, envelope, err, steps, recv, recvErr, valid>>

SetStep ==
    /\ \E k \in SetKeys, v \in SetValues :
          LET c == Set(record, k, v)
          IN  /\ record' = c.r
              /\ enrCall' = [op |-> "Set", k |-> k, v |-> v, err |-> c.err]
    /\ UNCHANGED messageVars

SetSeqStep ==
    /\ \E s \in 0 .. MaxSeq :
          /\ record' = SetSeq(record, s)
          /\ enrCall' = [op |-> "SetSeq", k |-> "", v |-> "", err |-> ""]
    /\ UNCHANGED messageVars

SignStep ==
    /\ record.seq < MaxSeq
    /\ \E privkey \in {"k1", "kbad"} :
          LET c == Sign(record, privkey)
          IN  /\ record' = c.r
              /\ enrCall' = [op |-> "Sign", k |-> privkey, v |-> "", err |-> c.err]
    /\ UNCHANGED messageVars

EncodeRLPStep ==
    /\ enrCall' = [op |-> "EncodeRLP", k |-> "", v |-> "", err |-> EncodeRLP(record).err]
    /\ UNCHANGED record
    /\ UNCHANGED messageVars

NextEnr ==
    \/ SetStep
    \/ SetSeqStep
    \/ SignStep
    \/ EncodeRLPStep

SpecEnr == Init /\ [][NextEnr]_vars

(***************************************************************************)
(* What the claims speak about.                                            *)
(***************************************************************************)
\* Wrap has returned
Wrapped == phase \notin {"new", "built"}

\* Validate has returned
Validated == phase = "validated"

InSteps(name) == \E i \in 1 .. Len(steps) : steps[i] = name

EncryptionRan == InSteps("encryptAsymmetric") \/ InSteps("encryptSymmetric")

BothOrNeither ==
    \/ params.Dst # "" /\ ~IsNil(params.KeySym)
    \/ params.Dst = "" /\ IsNil(params.KeySym)

\* the signature crypto.Sign makes over the buffer Wrap was called with
SignatureOf(raw, key) == cryptoSign(Keccak256(RawBytes(raw)), key)

\* the signing step of Wrap returned an error
SigningFailed == params.Src # "" /\ SignatureOf(rawBefore, params.Src).err # ""

\* the number of bytes of the padding block of a validated message: the
\* length bytes and the padding after them
PaddingBlockLen(msg) ==
    (RawFlags(msg.Raw) % (paddingMask + 1)) + BLen(Content(msg.Padding))

(***************************************************************************)
(* C1: Wrap called with both Dst and KeySym set, or with neither, returns  *)
(* an error and no envelope, whatever the other parameters are.            *)
(* The code encrypts to Dst and ignores KeySym when both are set.          *)
(***************************************************************************)
C1_BothOrNeitherIsRejected ==
    (Wrapped /\ BothOrNeither) => (err # "" /\ envelope = <<>>)

(***************************************************************************)
(* C2: with Src set, when signing succeeds the buffer that is encrypted is *)
(* the buffer before signing followed by the 65-byte signature, with the   *)
(* signed flag set; when signing fails nothing is appended, the flag is    *)
(* not set and Wrap returns the signing error.                             *)
(***************************************************************************)
C2_SignAppendsOnSuccessOnly ==
    (Wrapped /\ params.Src # "") =>
        LET s == SignatureOf(rawBefore, params.Src)
        IN  IF s.err = ""
            THEN sent.bytes = SetAt0(Append2(rawBefore.bytes, s.signature),
                                     SetBit(RawFlags(rawBefore), signatureFlag))
            ELSE sent = rawBefore /\ err = s.err /\ envelope = <<>>

(***************************************************************************)
(* C3: signed round trip.  A message built and wrapped with Src = k, k a   *)
(* valid key, then decrypted with the matching key: Validate returns true, *)
(* Signature has 65 bytes and Src is the public key of k.                  *)
(***************************************************************************)
C3_SignedRoundTrip ==
    (Validated /\ validPrivateKey(params.Src)) =>
        /\ valid = "true"
        /\ BLen(Content(recv.Signature)) = signatureLength
        /\ recv.Src = PublicKey(params.Src)

(***************************************************************************)
(* C4: symmetric round trip.  The envelope of a message wrapped with       *)
(* KeySym (Dst nil) is decrypted by decryptSymmetric with the same key and *)
(* the envelope's salt and nonce, and Validate then returns true with      *)
(* Payload equal to the payload that was sent.                             *)
(***************************************************************************)
SymmetricEnvelope == envelope # <<>> /\ params.Dst = "" /\ ~IsNil(params.KeySym)

C4_SymmetricRoundTrip ==
    /\ (phase = "received" /\ SymmetricEnvelope) =>
          LET r == decryptSymmetric(NewReceivedMessage(envelope[1].Data, envelope[1].Version),
                                    params.KeySym, envelope[1].Salt, envelope[1].AESNonce)
          IN  r.err = "" /\ r.msg.Raw = Plain(sent.bytes)
    /\ (Validated /\ SymmetricEnvelope) =>
          /\ valid = "true"
          /\ isSymmetricEncryption(recv) /\ ~isAsymmetricEncryption(recv)
          /\ recv.Payload = params.Payload

C4_Witness ==
    /\ Validated /\ SymmetricEnvelope
    /\ valid = "true"
    /\ BLen(params.Payload) = 5
    /\ recv.Payload = params.Payload
    /\ recv.TopicKeyHash = Keccak256(GoodKeySym)

(***************************************************************************)
(* C5: asymmetric round trip.  The envelope of a message wrapped with      *)
(* Dst = pub is decrypted by decryptAsymmetric with priv, and Validate     *)
(* (Dst set) then returns true with Payload equal to the payload sent.     *)
(***************************************************************************)
AsymmetricEnvelope == envelope # <<>> /\ params.Dst # ""

C5_AsymmetricRoundTrip ==
    /\ (phase = "received" /\ AsymmetricEnvelope) =>
          \E k \in PrivateKeys :
              /\ PublicKey(k) = params.Dst
              /\ LET r == decryptAsymmetric(
                              NewReceivedMessage(envelope[1].Data, envelope[1].Version), k)
                 IN  r.err = "" /\ r.msg.Raw = Plain(sent.bytes)
    /\ (Validated /\ AsymmetricEnvelope) =>
          /\ valid = "true"
          /\ recv.Dst = params.Dst
          /\ recv.Payload = params.Payload

C5_Witness ==
    /\ Validated /\ AsymmetricEnvelope
    /\ valid = "true"
    /\ BLen(params.Payload) = 256
    /\ recv.Payload = params.Payload
    /\ recv.Dst = "P1"

(***************************************************************************)
(* C6: padding size law.  For every buffer Validate accepts whose flags    *)
(* declare a padding block, 1 + padding length + payload length + (65 if   *)
(* signed) is a multiple of 256.                                           *)
(***************************************************************************)
C6_PaddingSizeLaw ==
    (Validated /\ valid = "true" /\ isMessagePadded(RawFlags(recv.Raw))) =>
        (1 + PaddingBlockLen(recv) + BLen(Content(recv.Payload))
           + (IF isMessageSigned(RawFlags(recv.Raw)) THEN signatureLength ELSE 0))
        % padSizeLimitUpper = 0

(***************************************************************************)
(* C7 as claimed: Wrap returns the error "Oversized message" and no        *)
(* envelope whenever the plaintext is longer than msgMaxLength, does not   *)
(* reject on size otherwise, and a payload of msgMaxLength + 1 bytes is    *)
(* always rejected with nothing encrypted or sealed.                       *)
(***************************************************************************)
NothingEncryptedOrSealed ==
    /\ envelope = <<>>
    /\ sent.layers = <<>>
    /\ ~EncryptionRan /\ ~InSteps("NewEnvelope") /\ ~InSteps("Seal")

C8_EnvelopeOnlyIfSealed ==
    (Wrapped /\ envelope # <<>> /\ err = "") => envelope[1].sealed

(***************************************************************************)
(* C9: a parameter-shape error comes before any crypto.  When Wrap is      *)
(* called with neither or both of Dst and KeySym it returns the error      *)
(* without having run the signing or the encryption step, and Raw is what  *)
(* it was before the call, also when Src is set.                           *)
(***************************************************************************)
C9_ShapeErrorBeforeCrypto ==
    (Wrapped /\ BothOrNeither) =>
        /\ err # ""
        /\ ~InSteps("sign") /\ ~EncryptionRan
        /\ sent = rawBefore

(***************************************************************************)
(* C10: in symmetric mode, Wrap with a KeySym that is not exactly 32 bytes *)
(* long or that is all zero returns an error, produces no envelope and     *)
(* leaves Raw unencrypted; a 32-byte key that is not all zero is accepted. *)
(***************************************************************************)
SymmetricMode == params.Dst = "" /\ ~IsNil(params.KeySym)

KeySymIsValid ==
    BLen(Content(params.KeySym)) = aesKeyLength /\ ~containsOnlyZeros(Content(params.KeySym))

C10_KeySymChecked ==
    (Wrapped /\ SymmetricMode) =>
        /\ ~KeySymIsValid => (err # "" /\ envelope = <<>> /\ sent.layers = <<>>)
        /\ KeySymIsValid =>
              err # "encryptSymmetric: invalid key provided for symmetric encryption"

(***************************************************************************)
(* C11: Wrap rejects parameters with PoW < 0 or with WorkTime = 0: it      *)
(* returns an error and no envelope, before any signing, encryption or     *)
(* sealing is done.                                                        *)
(***************************************************************************)
C11_PoWAndWorkTimeChecked ==
    (Wrapped /\ (params.PoW < 0 \/ params.WorkTime = 0)) =>
        /\ err # "" /\ envelope = <<>>
        /\ ~InSteps("sign") /\ sent = rawBefore

(***************************************************************************)
(* C12: Wrap called with TTL = 0 assembles the envelope with TTL =         *)
(* DefaultTTL, and with the caller's TTL for every other TTL; no envelope  *)
(* is assembled with TTL 0; the caller's MessageParams is not modified by  *)
(* the call.                                                               *)
(***************************************************************************)
EnvelopeTTL ==
    (Wrapped /\ envelope # <<>>) =>
        /\ envelope[1].TTL = IF params.TTL = 0 THEN DefaultTTL ELSE params.TTL
        /\ envelope[1].TTL # 0
        /\ envelope[1].Expiry = Now + envelope[1].TTL

C12_DefaultTTL == []EnvelopeTTL /\ [][phase = "built" => params' = params]_vars

C12_Witness ==
    /\ Wrapped /\ envelope # <<>>
    /\ params.TTL = 0
    /\ envelope[1].TTL = DefaultTTL

(***************************************************************************)
(* C13: for every byte buffer Raw (any length, any flags byte, any         *)
(* content) Validate returns true or false; it never panics, also when the *)
(* flags declare more padding-size bytes than the buffer holds.            *)
(* The code slices Raw[1 : 1+sz] before looking at the length.             *)
(***************************************************************************)
C13_ValidateNeverPanics == Validated => valid \in {"true", "false"}

(***************************************************************************)
(* C14: exactly one encryption mode holds for every message Validate       *)
(* accepts.  Validate returns true only if exactly one of symmetric mode   *)
(* (TopicKeyHash non-zero) and asymmetric mode (Dst non-nil) is true, and  *)
(* returns false when both or neither is true even for a buffer whose      *)
(* flags, padding and signature are well formed, that is, a buffer it      *)
(* accepts in symmetric mode alone.                                        *)
(***************************************************************************)
ExactlyOneMode(msg) == (msg.TopicKeyHash # ZeroHash) # (msg.Dst # "")

WellFormed(msg) ==
    Validate([msg EXCEPT !.TopicKeyHash = Keccak256(GoodKeySym), !.Dst = ""]).ok

C14_ExactlyOneMode ==
    Validated =>
        /\ valid = "true" => ExactlyOneMode(recv)
        /\ (~ExactlyOneMode(recv) /\ WellFormed(recv)) => valid = "false"

C14_Witness ==
    /\ Validated /\ valid = "false"
    /\ recv.TopicKeyHash # ZeroHash /\ recv.Dst # ""
    /\ WellFormed(recv)
    /\ isMessageSigned(RawFlags(recv.Raw)) /\ isMessagePadded(RawFlags(recv.Raw))

(***************************************************************************)
(* C15: the envelope Wrap assembles carries the 12-byte salt and the       *)
(* 12-byte nonce the symmetric encryption generated and used when          *)
(* symmetric encryption was used, and an empty salt and an empty nonce     *)
(* when asymmetric encryption was used; no envelope, hence no salt or      *)
(* nonce, comes out of a failed or skipped encryption step.                *)
(***************************************************************************)
C15_SaltAndNonce ==
    Wrapped =>
        /\ envelope # <<>> =>
              IF InSteps("encryptSymmetric")
              THEN /\ BLen(Content(envelope[1].Salt)) = saltLength
                   /\ BLen(Content(envelope[1].AESNonce)) = aesNonceLength
                   /\ Len(sent.layers) = 1
                   /\ sent.layers[1] =
                         SymLayer(DeriveOneTimeKey(params.KeySym, envelope[1].Salt,
                                                   EnvelopeVersion).derivedKey,
                                  envelope[1].AESNonce)
              ELSE /\ InSteps("encryptAsymmetric")
                   /\ Content(envelope[1].Salt) = <<>>
                   /\ Content(envelope[1].AESNonce) = <<>>
        /\ (err # "" \/ ~EncryptionRan) => envelope = <<>>

C15_Witness ==
    /\ Wrapped /\ envelope # <<>>
    /\ InSteps("encryptSymmetric")
    /\ BLen(Content(envelope[1].Salt)) = saltLength

(***************************************************************************)
(* C16: for envelope version 0 DeriveOneTimeKey derives the 32-byte        *)
(* one-time key with exactly 65536 PBKDF2 iterations, the same count on    *)
(* the encrypting and on the decrypting side.                              *)
(* The code passes 16 as the iteration count.                              *)
(***************************************************************************)
C16_IterationCount ==
    (Wrapped /\ InSteps("encryptSymmetric") /\ envelope # <<>>) =>
        LET dk == pbkdf2Key(params.KeySym, envelope[1].Salt, 65536, aesKeyLength)
        IN  /\ sent.layers[1].dk = dk
            /\ DeriveOneTimeKey(params.KeySym, envelope[1].Salt, envelope[1].Version)
                  = [derivedKey |-> dk, err |-> ""]

(***************************************************************************)
(* C17: after NewSentMessage(params), with total = 1 + len(Payload) + (65  *)
(* if Src is set), the padding block between the flags byte and the        *)
(* payload has length (256 - (total mod 256)) mod 256; when that length is *)
(* 0 there is no block and the padSizeLen bits of the flags are 0,         *)
(* otherwise they are 1; the padding step never panics.                    *)
(***************************************************************************)
Built == phase \in {"built", "panicked"}

TotalLen(p) == 1 + BLen(p.Payload) + (IF p.Src # "" THEN signatureLength ELSE 0)

PadLen(p) == (padSizeLimitUpper - (TotalLen(p) % padSizeLimitUpper)) % padSizeLimitUpper

C17_PaddingLength ==
    Built =>
        /\ phase # "panicked"
        /\ BLen(sent.bytes) = 1 + PadLen(params) + BLen(params.Payload)
        /\ Slice(sent.bytes, 1 + PadLen(params), BLen(sent.bytes)) = params.Payload
        /\ At(sent.bytes, 0) % (paddingMask + 1) = IF PadLen(params) = 0 THEN 0 ELSE 1
        /\ ~isMessageSigned(At(sent.bytes, 0))

C17_Witness ==
    /\ phase = "built"
    /\ PadLen(params) = 0 /\ params.Src # ""
    /\ BLen(sent.bytes) = 1 + BLen(params.Payload)

(***************************************************************************)
(* C18: the first padSizeLen bytes of the padding block encode the length  *)
(* of the block in little-endian; a caller-supplied Padding is copied      *)
(* verbatim into the block right after the length bytes, as far as the     *)
(* block has room, and the rest of the block is random.  Validate on the   *)
(* receiving side returns as Padding exactly the bytes of the block after  *)
(* the length bytes, so a caller-supplied padding that fits the block      *)
(* comes back unchanged as the leading bytes of Padding.                   *)
(***************************************************************************)
\* the part of the caller's Padding that fits a block of PadLen bytes
CopiedLen(p) == Min(PadLen(p) - 1, BLen(Content(p.Padding)))

PaddingBlockBuilt ==
    (phase = "built" /\ PadLen(params) > 0) =>
        LET sz == At(sent.bytes, 0) % (paddingMask + 1)
            n == CopiedLen(params)
        IN  /\ bytesToIntLittleEndian(Slice(sent.bytes, 1, 1 + sz)) = PadLen(params)
            /\ ~IsNil(params.Padding) =>
                  Slice(sent.bytes, 1 + sz, 1 + sz + n) = Take(params.Padding, n)
            /\ Slice(sent.bytes, 1 + sz + n, 1 + PadLen(params))
                  = Bytes(170, PadLen(params) - sz - n)

PaddingRecovered ==
    (Validated /\ valid = "true" /\ isMessagePadded(RawFlags(rawBefore))) =>
        LET sz == RawFlags(rawBefore) % (paddingMask + 1)
        IN  /\ recv.Padding = Slice(rawBefore.bytes, 1 + sz, 1 + PadLen(params))
            /\ BLen(Content(params.Padding)) <= PadLen(params) - sz =>
                  Take(recv.Padding, BLen(Content(params.Padding)))
                     = Content(params.Padding)

SignedBuffer(msg) == RawLen(msg.Raw) >= 1 /\ isMessageSigned(RawFlags(msg.Raw))

\* public-key recovery from the last 65 bytes against the digest of the rest
SignatureRecovers(msg) ==
    LET len == RawLen(msg.Raw)
    IN  SigToPub(Keccak256(Slice(RawBytes(msg.Raw), 0, len - signatureLength)),
                 Slice(RawBytes(msg.Raw), len - signatureLength, len)) # ""

C19_SignedLength ==
    (Validated /\ SignedBuffer(recv)) =>
        LET len == RawLen(recv.Raw)
        IN  /\ len < 1 + signatureLength => valid = "false"
            /\ (len >= 1 + signatureLength /\ ~SignatureRecovers(recv)) => valid = "false"
            /\ (/\ len >= 1 + signatureLength
                /\ SignatureRecovers(recv)
                /\ ~isMessagePadded(RawFlags(recv.Raw))
                /\ ExactlyOneMode(recv)) => valid = "true"

(***************************************************************************)
(* C20: for a buffer that got past the signature step and has exactly one  *)
(* encryption mode, with padSizeLen = sz > 0 in the flags Validate rejects *)
(* exactly when the pad length encoded in the sz bytes after the flags is  *)
(* smaller than sz or exceeds the bytes remaining between the flags byte   *)
(* and the signature (or the end of the buffer when unsigned); with        *)
(* padSizeLen = 0 the padding length is 0, no padding is extracted and the *)
(* payload is everything after the flags.                                  *)
(***************************************************************************)
\* Validate has come to the padding step
AtPaddingStep(msg) ==
    /\ RawLen(msg.Raw) >= 1
    /\ isMessageSigned(RawFlags(msg.Raw)) => msg.Src # ""

\* the end of the payload: the start of the signature, or of nothing
PayloadEnd(msg) ==
    IF isMessageSigned(RawFlags(msg.Raw)) THEN RawLen(msg.Raw) - signatureLength
    ELSE RawLen(msg.Raw)

\* the pad length encoded in the (at most sz) bytes the buffer has after
\* the flags
EncodedPadLen(msg) ==
    LET sz == RawFlags(msg.Raw) % (paddingMask + 1)
    IN  bytesToIntLittleEndian(Slice(RawBytes(msg.Raw), 1, Min(1 + sz, RawLen(msg.Raw))))

C20_PaddingRejection ==
    (Validated /\ AtPaddingStep(recv) /\ ExactlyOneMode(recv)) =>
        LET sz == RawFlags(recv.Raw) % (paddingMask + 1)
            end == PayloadEnd(recv)
        IN  IF sz > 0
            THEN /\ valid \in {"true", "false"}
                 /\ valid = "false" <=>
                       \/ EncodedPadLen(recv) < sz
                       \/ EncodedPadLen(recv) > end - 1
            ELSE /\ valid = "true"
                 /\ IsNil(recv.Padding)
                 /\ recv.Payload = Slice(RawBytes(recv.Raw), 1, end)

(***************************************************************************)
(* C21: signing a buffer that is already signed is an error.  When Wrap    *)
(* is called with Src set on a plaintext buffer whose signed flag is       *)
(* already set, sign returns a non-nil error, appends nothing and leaves   *)
(* the buffer as it was, and Wrap returns that error and no envelope.      *)
(* The code returns nil from sign in that case and Wrap goes on.           *)
(***************************************************************************)
\* the last call of Wrap found a plaintext buffer already marked as signed
CalledOnSigned ==
    /\ Wrapped
    /\ rawBefore.layers = <<>>
    /\ isMessageSigned(RawFlags(rawBefore))

C21_SignedTwiceIsAnError ==
    (CalledOnSigned /\ params.Src # "") =>
        /\ sign(rawBefore, params.Src).err # ""
        /\ sign(rawBefore, params.Src).raw = rawBefore
        /\ err # "" /\ envelope = <<>>
        /\ sent = rawBefore

(***************************************************************************)
(* C22: the send path is one-way.  Over all calls on one SentMessage,      *)
(* signing precedes encryption, encryption precedes envelope assembly and  *)
(* assembly precedes sealing, padding having been done before the first    *)
(* call, so in every call the steps run in that order; no step is applied  *)
(* again to a buffer that has passed a later step: a buffer is never       *)
(* encrypted twice, and a Wrap on an already encrypted buffer runs neither *)
(* the signing nor the encryption step and leaves the buffer as it is.     *)
(***************************************************************************)
StepRank(name) ==
    CASE name = "sign" -> 1
      [] name \in {"encryptAsymmetric", "encryptSymmetric"} -> 2
      [] name = "NewEnvelope" -> 3
      [] name = "Seal" -> 4
      [] OTHER -> 0

RECURSIVE LastCall(_)
\* the steps of the last call of Wrap
LastCall(list) ==
    IF CountOf("Wrap", list) = 0 THEN list ELSE LastCall(Tail(list))

C22_OneWay ==
    Wrapped =>
        /\ \A i, j \in 1 .. Len(LastCall(steps)) :
              i < j => StepRank(LastCall(steps)[i]) < StepRank(LastCall(steps)[j])
        /\ Len(sent.layers) <= 1
        /\ rawBefore.layers # <<>> =>
              /\ sent = rawBefore
              /\ \A i \in 1 .. Len(LastCall(steps)) :
                    StepRank(LastCall(steps)[i]) \notin {1, 2}

(***************************************************************************)
(* C23: for a message that sign has marked as signed, the byte string the  *)
(* receiver hashes to recover the signer (the plaintext without its last   *)
(* 65 bytes, flags byte included as received) is the byte string the       *)
(* sender hashed in sign, so both compute the same digest.                 *)
(* sign hashes Raw before it sets the signed flag and before it appends.   *)
(***************************************************************************)
\* the last call of Wrap ran sign, and sign marked the plaintext as signed
MarkedSigned ==
    /\ Wrapped /\ InSteps("sign")
    /\ rawBefore.layers = <<>> /\ ~isMessageSigned(RawFlags(rawBefore))
    /\ sent.layers = <<>> /\ isMessageSigned(RawFlags(sent))

C23_SameDigest ==
    MarkedSigned =>
        /\ Slice(sent.bytes, 0, BLen(sent.bytes) - signatureLength) = rawBefore.bytes
        /\ hash(NewReceivedMessage(sent, EnvelopeVersion)) = Keccak256(RawBytes(rawBefore))

(***************************************************************************)
(* C24: at every point of a SentMessage's life before encryption, and      *)
(* after sign has returned with any outcome, the signed flag in Raw[0] is  *)
(* set if and only if Raw ends with a 65-byte signature appended by sign.  *)
(***************************************************************************)
EndsWithSignature(buf) ==
    /\ BLen(buf) > signatureLength
    /\ LET last == buf[Len(buf)]
       IN  last.t = "sig" /\ last.o = 0 /\ last.n = signatureLength

C24_FlagIffSignature ==
    (phase \in {"built", "wrapped"} /\ sent.layers = <<>>) =>
        (isMessageSigned(RawFlags(sent)) <=> EndsWithSignature(sent.bytes))

(***************************************************************************)
(* C25: for a message built by NewSentMessage(params) and wrapped by Wrap  *)
(* with the same params, the plaintext handed to the encryption step has a *)
(* length that is a multiple of 256, with Src set or not: the 65 bytes     *)
(* reserved at padding time are the bytes the signature occupies.          *)
(***************************************************************************)
\* the plaintext the encryption step was handed: the bytes under the
\* encryption layer, or Raw itself when the step failed
PlaintextEncrypted == sent.bytes

C25_PlaintextMultipleOf256 ==
    (Wrapped /\ EncryptionRan) =>
        BLen(PlaintextEncrypted) % padSizeLimitUpper = 0

(***************************************************************************)
(* C26: whenever Validate returns true, the flags byte, the padding block  *)
(* (length bytes followed by Padding), Payload and Signature are           *)
(* contiguous, pairwise disjoint regions of Raw in that order whose        *)
(* lengths sum to len(Raw); the padding never reaches into the signature   *)
(* and Payload is exactly the bytes between padding and signature.         *)
(***************************************************************************)
C26_RegionsPartitionRaw ==
    (Validated /\ valid = "true") =>
        LET bytes == RawBytes(recv.Raw)
            sz == RawFlags(recv.Raw) % (paddingMask + 1)
            pad == Content(recv.Padding)
            payload == Content(recv.Payload)
            sig == Content(recv.Signature)
        IN  /\ 1 + sz + BLen(pad) + BLen(payload) + BLen(sig) = BLen(bytes)
            /\ bytes = Norm(Slice(bytes, 0, 1 + sz) \o pad \o payload \o sig)
            /\ BLen(sig) = IF isMessageSigned(RawFlags(recv.Raw)) THEN signatureLength ELSE 0
            /\ sz > 0 => bytesToIntLittleEndian(Slice(bytes, 1, 1 + sz)) = sz + BLen(pad)
            /\ sz = 0 => pad = <<>>
            /\ payload = Slice(bytes, 1 + sz + BLen(pad), BLen(bytes) - BLen(sig))

C26_Witness ==
    /\ Validated /\ valid = "true"
    /\ isMessageSigned(RawFlags(recv.Raw)) /\ isMessagePadded(RawFlags(recv.Raw))
    /\ BLen(Content(recv.Padding)) > 0
    /\ BLen(Content(recv.Payload)) > 0
    /\ BLen(Content(recv.Signature)) = signatureLength

(***************************************************************************)
(* C27: a failed decryption attempt changes nothing.  When                 *)
(* decryptSymmetric or decryptAsymmetric returns an error (wrong key,      *)
(* wrong nonce length, unsupported envelope version, authentication        *)
(* failure), Raw and every other field of the ReceivedMessage are what     *)
(* they were before the call, so a further candidate key can be tried;     *)
(* Raw is replaced, by the plaintext, only on success.                     *)
(***************************************************************************)
\* the message as it came out of the envelope
AsReceived == NewReceivedMessage(envelope[1].Data, envelope[1].Version)

\* the outcome r of a decryption call on the message m
FrameOfDecryption(m, r) ==
    IF r.err # "" THEN r.msg = m
    ELSE /\ r.msg = [m EXCEPT !.Raw = r.msg.Raw]
         /\ m.Raw.layers # <<>>
         /\ r.msg.Raw = [m.Raw EXCEPT !.layers = Tail(@)]

C27_FailedDecryptionChangesNothing ==
    phase = "received" =>
        /\ recvErr # "" => recv = AsReceived
        /\ \A version \in {EnvelopeVersion, EnvelopeVersion + 1},
              key \in CandidateKeySyms,
              nonce \in {envelope[1].AESNonce, Bytes(60, aesNonceLength - 1)} :
              LET m == [recv EXCEPT !.EnvelopeVersion = version]
              IN  FrameOfDecryption(m, decryptSymmetric(m, key, envelope[1].Salt, nonce))
        /\ \A key \in PrivateKeys :
              FrameOfDecryption(recv, decryptAsymmetric(recv, key))

C27_Witness ==
    /\ phase = "received"
    /\ recvErr = "cipher: message authentication failed"
    /\ recv = AsReceived
    /\ \E key \in CandidateKeySyms :
          decryptSymmetric(recv, key, envelope[1].Salt, envelope[1].AESNonce).err = ""

(***************************************************************************)
(* C28: Validate extracts the fields only in case of success.  Whenever    *)
(* Validate returns false, at whichever step, the Payload, Padding,        *)
(* Signature and Src fields of the ReceivedMessage are what they were      *)
(* before the call (nil, for a message fresh out of decryption).           *)
(* The code assigns each field as it goes and restores nothing.            *)
(***************************************************************************)
C28_NothingExtractedOnReject ==
    (Validated /\ valid = "false") =>
        /\ IsNil(recv.Payload)
        /\ IsNil(recv.Padding)
        /\ IsNil(recv.Signature)
        /\ recv.Src = ""

(***************************************************************************)
(* C29: in a node Record, after any sequence of Set, SetSeq and Sign calls *)
(* starting from the empty record, the pairs are sorted by key in strictly *)
(* increasing order, so no key occurs twice; Set of a key that is present  *)
(* replaces its value and leaves the number of pairs as it is; every Set   *)
(* and every SetSeq clears the signature, so that EncodeRLP fails with     *)
(* "record is not signed" until the record is signed again.                *)
(***************************************************************************)
PairsSorted ==
    \A i \in 1 .. Len(record.pairs) - 1 :
        KeyRank(record.pairs[i].k) < KeyRank(record.pairs[i + 1].k)

HasKey(r, k) == \E i \in 1 .. Len(r.pairs) : r.pairs[i].k = k

ValueOf(r, k) == r.pairs[CHOOSE i \in 1 .. Len(r.pairs) : r.pairs[i].k = k].v

\* a step that is a call of Set
SetReplaces ==
    enrCall'.op = "Set" =>
        /\ HasKey(record, enrCall'.k) =>
              /\ Len(record'.pairs) = Len(record.pairs)
              /\ enrCall'.err = "" =>
                    ValueOf(record', enrCall'.k) = rlpEncodeToBytes(enrCall'.v).blob
        /\ (~HasKey(record, enrCall'.k) /\ enrCall'.err = "") =>
              /\ Len(record'.pairs) = Len(record.pairs) + 1
              /\ HasKey(record', enrCall'.k)
        /\ \A k \in SetKeys \cup {"secp256k1"} :
              (k # enrCall'.k /\ HasKey(record, k)) =>
                  HasKey(record', k) /\ ValueOf(record', k) = ValueOf(record, k)

\* a signature appears only through a successful Sign
SignedOnlyBySign ==
    (record'.signature # <<>> /\ record'.signature # record.signature) =>
        enrCall'.op = "Sign" /\ enrCall'.err = ""

SignatureCleared ==
    /\ enrCall.op \in {"Set", "SetSeq"} =>
          /\ record.signature = <<>>
          /\ EncodeRLP(record).err = "record is not signed"
    /\ enrCall.op = "EncodeRLP" =>
          (enrCall.err = "record is not signed" <=> record.signature = <<>>)
    /\ record.signature # <<>> =>
          /\ record.signature[1].seq = record.seq
          /\ record.signature[1].pairs = record.pairs

C29_RecordPairsSorted ==
    /\ [](PairsSorted /\ SignatureCleared)
    /\ [][SetReplaces /\ SignedOnlyBySign]_vars

C29_Witness ==
    /\ enrCall.op = "EncodeRLP" /\ enrCall.err = "record is not signed"
    /\ record.raw # <<>>
    /\ Len(record.pairs) = 4
    /\ PairsSorted

====
